---- MODULE Spec2Model ----
(***************************************************************************)
(* fairshare: expense splitting, balance aggregation, settlement plan      *)
(* minimisation and per-user debt netting of one expense group.            *)
(*                                                                         *)
(* A Decimal amount d is represented by the integer d * 1000 (thousandths  *)
(* of the currency unit), so that amounts with more than two decimal       *)
(* places exist and quantize_currency has something to round.  CENT is the *)
(* quantum Decimal("0.01") in that unit.                                   *)
(***************************************************************************)
EXTENDS Integers, Sequences, FiniteSets

VARIABLES members, expenses, settlements, join_requests, response, arg, result, pc

vars == <<members, expenses, settlements, join_requests, response, arg, result, pc>>

(* ------------------------------ bounds --------------------------------- *)
NumUsers == 3
MaxExpenses == 1
MaxSettlements == 2
MaxMills == 10010
MaxCents == 7
NumParties == 4
MaxBalance == 4
MaxRequestMills == 45
MaxStoredExpenses == 2
MaxJoinRequests == 4
MaxSplitRows == 2
MaxSettlementRows == 1
NumRequests == 2

Users == 1..NumUsers

Parties == 1..NumParties

(* ------------------------------ helpers -------------------------------- *)
Range(s) == {s[i] : i \in DOMAIN s}

Min(a, b) == IF a <= b THEN a ELSE b

Abs(a) == IF a < 0 THEN -a ELSE a

RECURSIVE SumOver(_, _)
SumOver(f, S) ==
  IF S = {} THEN 0
  ELSE LET x == CHOOSE y \in S : TRUE IN f[x] + SumOver(f, S \ {x})

RemoveAt(s, i) == [j \in 1..(Len(s) - 1) |-> IF j < i THEN s[j] ELSE s[j + 1]]

InjectiveSeqs(S) ==
  UNION {{s \in [1..n -> S] : \A i, j \in 1..n : s[i] = s[j] => i = j} : n \in 0..Cardinality(S)}

(* ------------------------------ money ---------------------------------- *)
CENT == 10

\* Mutant: ROUND_HALF_UP instead of ROUND_UP.
QuantizeHalfUp(value) ==
  LET q == ((Abs(value) + (CENT \div 2)) \div CENT) * CENT
  IN IF value < 0 THEN -q ELSE q

\* value.quantize(Decimal("0.01"), rounding=ROUND_UP): any excess beyond the
\* cent moves the magnitude to the next cent (away from zero).
quantize_currency(value) ==
  LET mag == Abs(value)
      q == IF mag % CENT = 0 THEN mag ELSE ((mag \div CENT) + 1) * CENT
  IN IF value < 0 THEN -q ELSE q

\* int(total * 100): the number of whole cents, truncated toward zero.
ToCents(total) == IF total < 0 THEN -(Abs(total) \div CENT) ELSE total \div CENT

\* Decimal(share_cents) / Decimal(100)
FromCents(cents) == cents * CENT

(* ------------------------- expense split allocator --------------------- *)
\* ORDER BY user_id of the membership rows (rows are unique per user).
RECURSIVE SortAscending(_)
SortAscending(ids) ==
  IF ids = <<>> THEN <<>>
  ELSE LET m == CHOOSE x \in Range(ids) : \A y \in Range(ids) : x <= y
           i == CHOOSE k \in DOMAIN ids : ids[k] = m
       IN <<m>> \o SortAscending(RemoveAt(ids, i))

\* Mutant: the membership rows in the order the members joined.
MemberIdsInJoinOrder(rows) == rows

MemberIds(rows) == SortAscending(rows)

\* Mutant: the remainder cents are dropped.
ShareCentsNoRemainder(index, base_share, remainder) == base_share

\* base_share + (1 if index < remainder else 0), index counted from 0.
ShareCents(index, base_share, remainder) ==
  base_share + (IF index < remainder THEN 1 ELSE 0)

\* _create_expense_splits: the split rows of an expense of the given value
\* for the given membership rows.
CreateExpenseSplits(rows, value) ==
  LET member_ids == MemberIds(rows)
      total == quantize_currency(value)
      total_cents == ToCents(total)
      member_count == Len(member_ids)
      base_share == total_cents \div member_count
      remainder == total_cents % member_count
  IN IF member_ids = <<>> THEN <<>>
     ELSE [k \in 1..member_count |->
             [user_id |-> member_ids[k],
              share |-> quantize_currency(
                          FromCents(ShareCents(k - 1, base_share, remainder)))]]

(* ---------------------------- balance aggregator ----------------------- *)
\* A defaultdict(lambda: Decimal("0.00")): a map whose keys are the users
\* that were touched.
EmptyDict == [u \in {} |-> 0]

DictGet(d, k) == IF k \in DOMAIN d THEN d[k] ELSE 0

DictAdd(d, k, v) ==
  [x \in (DOMAIN d) \cup {k} |-> IF x = k THEN DictGet(d, k) + v ELSE d[x]]

\* func.sum(ExpenseSplit.share) of one (split user, expense creator) group.
RECURSIVE SumShares(_, _)
SumShares(splits, user) ==
  IF splits = <<>> THEN 0
  ELSE (IF Head(splits).user_id = user THEN Head(splits).share ELSE 0)
       + SumShares(Tail(splits), user)

RECURSIVE PairShareSum(_, _, _)
PairShareSum(exps, debtor, creditor) ==
  IF exps = <<>> THEN 0
  ELSE (IF Head(exps).created_by = creditor
        THEN SumShares(Head(exps).splits, debtor) ELSE 0)
       + PairShareSum(Tail(exps), debtor, creditor)

\* The (split user, creator) groups of the query: split rows joined with
\* their expense, where the split's user is not the expense's creator.
SplitPairs(exps) ==
  {p \in UNION {{<<exps[i].splits[k].user_id, exps[i].created_by>> :
                   k \in DOMAIN exps[i].splits} : i \in DOMAIN exps} :
     p[1] # p[2]}

\* balances[debtor_id] -= amount; balances[creditor_id] += amount
ApplySplitRow(balances, debtor_id, creditor_id, amount) ==
  DictAdd(DictAdd(balances, debtor_id, -amount), creditor_id, amount)

\* Mutant: the settlement is added to the debtor and not taken from the creditor.
ApplySettlementRowDebtorOnly(balances, debtor_id, creditor_id, amount) ==
  DictAdd(balances, debtor_id, amount)

\* Mutant: the settlement is applied with the signs of a split.
ApplySettlementRowReversed(balances, debtor_id, creditor_id, amount) ==
  DictAdd(DictAdd(balances, debtor_id, -amount), creditor_id, amount)

\* balances[debtor_id] += amount; balances[creditor_id] -= amount
ApplySettlementRow(balances, debtor_id, creditor_id, amount) ==
  DictAdd(DictAdd(balances, debtor_id, amount), creditor_id, -amount)

RECURSIVE ApplySplitRows(_, _, _)
ApplySplitRows(balances, pairs, exps) ==
  IF pairs = {} THEN balances
  ELSE LET p == CHOOSE q \in pairs : TRUE
       IN ApplySplitRows(
            ApplySplitRow(balances, p[1], p[2], PairShareSum(exps, p[1], p[2])),
            pairs \ {p}, exps)

RECURSIVE ApplySettlementRows(_, _)
ApplySettlementRows(balances, setts) ==
  IF setts = <<>> THEN balances
  ELSE ApplySettlementRows(
         ApplySettlementRow(balances, Head(setts).debtor_id,
                            Head(setts).creditor_id, Head(setts).amount),
         Tail(setts))

\* The balances map of _calculate_group_settlement_plan.
AggregateBalances(exps, setts) ==
  ApplySettlementRows(ApplySplitRows(EmptyDict, SplitPairs(exps), exps), setts)

(* ------------------------ settlement plan minimizer -------------------- *)
\* Mutant: the lists are sorted by user id alone.
BeforeByIdOnly(a, b) == a[1] < b[1]

\* list.sort(key=lambda item: (-item[1], item[0])) of (user id, amount)
\* pairs: descending amount, ascending user id.
Before(a, b) == a[2] > b[2] \/ (a[2] = b[2] /\ a[1] < b[1])

RECURSIVE SortByAmountThenId(_)
SortByAmountThenId(S) ==
  IF S = {} THEN <<>>
  ELSE LET m == CHOOSE x \in S : \A y \in S \ {x} : Before(x, y)
       IN <<m>> \o SortByAmountThenId(S \ {m})

\* Mutant: every user with a non-zero balance is taken for a creditor.
CreditorsAnyNonZero(balances) ==
  SortByAmountThenId({<<u, Abs(balances[u])>> : u \in {x \in DOMAIN balances : balances[x] # 0}})

\* if balance > Decimal("0.00"): creditors.append((user_id, balance)), sorted.
Creditors(balances) ==
  SortByAmountThenId({<<u, balances[u]>> : u \in {x \in DOMAIN balances : balances[x] > 0}})

Debtors(balances) ==
  SortByAmountThenId({<<u, -balances[u]>> : u \in {x \in DOMAIN balances : balances[x] < 0}})

\* Mutant: one cent is transferred per step.
TransferAmountOneCent(debtor_amount, creditor_amount) ==
  quantize_currency(Min(CENT, Min(debtor_amount, creditor_amount)))

\* quantize_currency(min(debtor_amount, creditor_amount))
TransferAmount(debtor_amount, creditor_amount) ==
  quantize_currency(Min(debtor_amount, creditor_amount))

\* Mutant: the debtor pointer advances after every transfer.
AdvanceDebtorAlways(debtor_index, remaining_debtor) == debtor_index + 1

\* if remaining_debtor == 0: debtor_index += 1
AdvanceDebtor(debtor_index, remaining_debtor) ==
  IF remaining_debtor = 0 THEN debtor_index + 1 ELSE debtor_index

\* Mutant: the creditor pointer advances after every transfer.
AdvanceCreditorAlways(creditor_index, remaining_creditor) == creditor_index + 1

\* if remaining_creditor == 0: creditor_index += 1
AdvanceCreditor(creditor_index, remaining_creditor) ==
  IF remaining_creditor = 0 THEN creditor_index + 1 ELSE creditor_index

\* The variables of the while loop of _calculate_group_settlement_plan;
\* indexes count from 1.
LoopState(debtors, creditors, debtor_index, creditor_index, transfers) ==
  [debtors |-> debtors, creditors |-> creditors,
   debtor_index |-> debtor_index, creditor_index |-> creditor_index,
   transfers |-> transfers]

\* while debtor_index < len(debtors) and creditor_index < len(creditors)
LoopCondition(st) ==
  st.debtor_index <= Len(st.debtors) /\ st.creditor_index <= Len(st.creditors)

\* One iteration of the while loop.
LoopBody(st) ==
  LET debtor_id == st.debtors[st.debtor_index][1]
      debtor_amount == st.debtors[st.debtor_index][2]
      creditor_id == st.creditors[st.creditor_index][1]
      creditor_amount == st.creditors[st.creditor_index][2]
      transfer_amount == TransferAmount(debtor_amount, creditor_amount)
      recorded == IF transfer_amount > 0
                  THEN Append(st.transfers, <<debtor_id, creditor_id, transfer_amount>>)
                  ELSE st.transfers
      remaining_debtor == quantize_currency(debtor_amount - transfer_amount)
      remaining_creditor == quantize_currency(creditor_amount - transfer_amount)
  IN LoopState(
       IF remaining_debtor = 0 THEN st.debtors
       ELSE [st.debtors EXCEPT ![st.debtor_index] = <<debtor_id, remaining_debtor>>],
       IF remaining_creditor = 0 THEN st.creditors
       ELSE [st.creditors EXCEPT ![st.creditor_index] = <<creditor_id, remaining_creditor>>],
       AdvanceDebtor(st.debtor_index, remaining_debtor),
       AdvanceCreditor(st.creditor_index, remaining_creditor),
       recorded)

\* The while loop, run to its end: the transfers.
RECURSIVE PlanLoop(_, _, _, _, _)
PlanLoop(debtors, creditors, debtor_index, creditor_index, transfers) ==
  LET st == LoopState(debtors, creditors, debtor_index, creditor_index, transfers)
      next == LoopBody(st)
  IN IF ~LoopCondition(st) THEN transfers
     ELSE PlanLoop(next.debtors, next.creditors, next.debtor_index,
                   next.creditor_index, next.transfers)

\* The transfers (debtor, creditor, amount) for a balances map.
MinimizeSettlement(balances) ==
  PlanLoop(Debtors(balances), Creditors(balances), 1, 1, <<>>)

\* _calculate_group_settlement_plan(session, group_id)
CalculateGroupSettlementPlan(exps, setts) ==
  MinimizeSettlement(AggregateBalances(exps, setts))

(* ------------- the plan, in the order the rows are read ---------------- *)
\* The balances dict as Python keeps it: (user id, balance) entries in the
\* order in which the keys were first touched.
OrderedGet(d, k) ==
  IF \E i \in DOMAIN d : d[i][1] = k
  THEN d[CHOOSE i \in DOMAIN d : d[i][1] = k][2]
  ELSE 0

\* balances[k] += v on the defaultdict: a new key goes to the end.
OrderedAdd(d, k, v) ==
  IF \E i \in DOMAIN d : d[i][1] = k
  THEN [i \in DOMAIN d |-> IF d[i][1] = k THEN <<k, d[i][2] + v>> ELSE d[i]]
  ELSE Append(d, <<k, v>>)

\* The loop over the split query's rows (debtor_id, creditor_id, amount).
RECURSIVE ReadSplitRows(_, _)
ReadSplitRows(d, rows) ==
  IF rows = <<>> THEN d
  ELSE ReadSplitRows(
         OrderedAdd(OrderedAdd(d, Head(rows)[1], -Head(rows)[3]),
                    Head(rows)[2], Head(rows)[3]),
         Tail(rows))

\* The loop over the settlement rows (debtor_id, creditor_id, amount).
RECURSIVE ReadSettlementRows(_, _)
ReadSettlementRows(d, rows) ==
  IF rows = <<>> THEN d
  ELSE ReadSettlementRows(
         OrderedAdd(OrderedAdd(d, Head(rows)[1], Head(rows)[3]),
                    Head(rows)[2], -Head(rows)[3]),
         Tail(rows))

OrderedBalances(rows) ==
  ReadSettlementRows(ReadSplitRows(<<>>, rows.splits), rows.settlements)

\* for user_id, balance in balances.items(): the creditors and the debtors,
\* in the dict's order.
RECURSIVE CreditorList(_)
CreditorList(d) ==
  IF d = <<>> THEN <<>>
  ELSE (IF Head(d)[2] > 0 THEN <<Head(d)>> ELSE <<>>) \o CreditorList(Tail(d))

RECURSIVE DebtorList(_)
DebtorList(d) ==
  IF d = <<>> THEN <<>>
  ELSE (IF Head(d)[2] < 0 THEN <<<<Head(d)[1], -Head(d)[2]>>>> ELSE <<>>)
       \o DebtorList(Tail(d))

\* Mutant: the sort key is the amount alone, (-item[1]).
SortKeyBeforeAmountOnly(a, b) == a[2] > b[2]

\* key=lambda item: (-item[1], item[0]): a's key is less than b's.
SortKeyBefore(a, b) == Before(a, b)

\* list.sort is stable: an item is placed before the first item its key is
\* less than, and after every item of an equal key that came before it.
RECURSIVE InsertSorted(_, _)
InsertSorted(x, sorted) ==
  IF sorted = <<>> THEN <<x>>
  ELSE IF SortKeyBefore(x, Head(sorted)) THEN <<x>> \o sorted
  ELSE <<Head(sorted)>> \o InsertSorted(x, Tail(sorted))

RECURSIVE StableSort(_)
StableSort(items) ==
  IF items = <<>> THEN <<>>
  ELSE InsertSorted(items[Len(items)], StableSort(SubSeq(items, 1, Len(items) - 1)))

\* _calculate_group_settlement_plan on rows read in a given order.
OrderedPlan(rows) ==
  LET d == OrderedBalances(rows)
  IN PlanLoop(StableSort(DebtorList(d)), StableSort(CreditorList(d)), 1, 1, <<>>)

(* --------------------------- per-user debt netter ---------------------- *)
\* owed_by_raw / owed_to_raw of calculate_user_debts: the transfers of the
\* user as debtor keyed by creditor, else as creditor keyed by debtor.
RECURSIVE OwedByRaw(_, _)
OwedByRaw(transfers, user_id) ==
  IF transfers = <<>> THEN EmptyDict
  ELSE LET t == transfers[Len(transfers)]
           rest == OwedByRaw(SubSeq(transfers, 1, Len(transfers) - 1), user_id)
       IN IF t[1] = user_id THEN DictAdd(rest, t[2], t[3]) ELSE rest

\* Mutant: owed_to_raw is keyed by the creditor, who is the user.
OwedToKeyCreditor(debtor_id, creditor_id) == creditor_id

\* owed_to_raw[debtor_id] += amount
OwedToKey(debtor_id, creditor_id) == debtor_id

RECURSIVE OwedToRaw(_, _)
OwedToRaw(transfers, user_id) ==
  IF transfers = <<>> THEN EmptyDict
  ELSE LET t == transfers[Len(transfers)]
           rest == OwedToRaw(SubSeq(transfers, 1, Len(transfers) - 1), user_id)
       IN IF t[1] # user_id /\ t[2] = user_id
          THEN DictAdd(rest, OwedToKey(t[1], t[2]), t[3]) ELSE rest

\* items.sort(key=lambda item: (-item.amount, item.user_id))
DebtItems(S) ==
  LET sorted == SortByAmountThenId(S)
  IN [k \in DOMAIN sorted |-> [user_id |-> sorted[k][1], amount |-> sorted[k][2]]]

\* Mutant: the counterparties the user owes are netted the wrong way round.
NetOwedByItemsSwapped(owed_by_raw, owed_to_raw) ==
  {<<o, quantize_currency(DictGet(owed_to_raw, o) - DictGet(owed_by_raw, o))>> :
     o \in {x \in (DOMAIN owed_by_raw) \cup (DOMAIN owed_to_raw) :
              DictGet(owed_by_raw, x) > DictGet(owed_to_raw, x)}}

\* The (counterparty, net amount) pairs with owed_by_amount > owed_to_amount.
NetOwedByItems(owed_by_raw, owed_to_raw) ==
  {<<o, quantize_currency(DictGet(owed_by_raw, o) - DictGet(owed_to_raw, o))>> :
     o \in {x \in (DOMAIN owed_by_raw) \cup (DOMAIN owed_to_raw) :
              DictGet(owed_by_raw, x) > DictGet(owed_to_raw, x)}}

\* The (counterparty, net amount) pairs with owed_to_amount > owed_by_amount.
NetOwedToItems(owed_by_raw, owed_to_raw) ==
  {<<o, quantize_currency(DictGet(owed_to_raw, o) - DictGet(owed_by_raw, o))>> :
     o \in {x \in (DOMAIN owed_by_raw) \cup (DOMAIN owed_to_raw) :
              DictGet(owed_to_raw, x) > DictGet(owed_by_raw, x)}}

RECURSIVE SumAmounts(_)
SumAmounts(S) ==
  IF S = {} THEN 0
  ELSE LET x == CHOOSE y \in S : TRUE IN x[2] + SumAmounts(S \ {x})

\* _net_user_debts
NetUserDebts(owed_by_raw, owed_to_raw) ==
  LET by == NetOwedByItems(owed_by_raw, owed_to_raw)
      to == NetOwedToItems(owed_by_raw, owed_to_raw)
  IN [owed_by_user_total |-> quantize_currency(SumAmounts(by)),
      owed_to_user_total |-> quantize_currency(SumAmounts(to)),
      owed_by_user |-> DebtItems(by),
      owed_to_user |-> DebtItems(to)]

\* net_user_debts over a transfer list, as calculate_user_debts applies it.
UserDebtsOfPlan(transfers, user_id) ==
  NetUserDebts(OwedByRaw(transfers, user_id), OwedToRaw(transfers, user_id))

\* calculate_user_debts(session, group_id, user_id)
CalculateUserDebts(exps, setts, user_id) ==
  UserDebtsOfPlan(CalculateGroupSettlementPlan(exps, setts), user_id)

(* ------------------------------ the ledger ----------------------------- *)
\* Request values: Decimal amounts in thousandths, before validation.
ExpenseValues == {-10, 15, 40}

SettlementAmounts == {0, 5, 20}

\* is_member / get_member: a membership row of the group for the user.
IsMember(user_id) == user_id \in Range(members)

\* The HTTP response of the last request: its status code and, for an
\* HTTPException, its detail.
Reply(status, detail) == [status |-> status, detail |-> detail]

NoReply == Reply(0, "")

ledger == <<members, expenses, settlements>>

pure == <<arg, result, pc>>

joins == <<join_requests>>

\* create_group: the group exists with its creator as the only member.
Init ==
  /\ \E creator \in Users : members = <<creator>>
  /\ expenses = <<>>
  /\ settlements = <<>>
  /\ join_requests = <<>>
  /\ response = NoReply
  /\ arg = 0
  /\ result = 0
  /\ pc = "ledger"

\* Mutant: add_member adds no membership row.
AddMemberRowNone(rows, user_id) == rows

\* add_member: ExpenseGroupMember(group_id, user_id) is added to the table.
AddMemberRow(rows, user_id) == Append(rows, user_id)

\* add_member, reached from accept_group_join_request for a user who has no
\* membership row of the group.
AddMember(user_id) ==
  /\ ~IsMember(user_id)
  /\ members' = AddMemberRow(members, user_id)
  /\ response' = Reply(200, "")
  /\ UNCHANGED <<expenses, settlements, joins, pure>>

\* Mutant: the request value is stored as it was sent.
NormalizeValueIdentity(value) == value

\* ExpenseBase._normalize_value / ExpenseUpdate._normalize_value: the field
\* validator of the request schema; it quantizes and rejects nothing.
NormalizeValue(value) == quantize_currency(value)

\* Mutant: the expense is split among nobody but its creator.
CreateExpenseCreatorOnly(rows, user_id, value_in) ==
  LET value == NormalizeValue(value_in)
  IN [created_by |-> user_id,
      value |-> value,
      splits |-> CreateExpenseSplits(<<user_id>>, value)]

\* create_expense: the Expense row built from the validated request, with the
\* split rows _create_expense_splits adds for the current membership rows.
CreateExpense(rows, user_id, value_in) ==
  LET value == NormalizeValue(value_in)
  IN [created_by |-> user_id,
      value |-> value,
      splits |-> CreateExpenseSplits(rows, value)]

\* POST /groups/{group_id}/expenses: get_group_as_member, ExpenseCreate's
\* validator, create_expense.
CreateGroupExpense(user_id, value_in) ==
  IF ~IsMember(user_id)
  THEN /\ response' = Reply(404, "Group not found")
       /\ UNCHANGED <<ledger, joins, pure>>
  ELSE /\ expenses' = Append(expenses, CreateExpense(members, user_id, value_in))
       /\ response' = Reply(201, "")
       /\ UNCHANGED <<members, settlements, joins, pure>>

\* Mutant: get_expense_as_member in place of get_expense_as_creator.
ExpenseAsMember(user_id, expense_id) ==
  IF expense_id \notin DOMAIN expenses \/ ~IsMember(user_id) THEN 404 ELSE 0

\* get_expense_as_creator: 0 when the expense is returned, else the status.
ExpenseAsCreator(user_id, expense_id) ==
  IF expense_id \notin DOMAIN expenses \/ ~IsMember(user_id) THEN 404
  ELSE IF expenses[expense_id].created_by # user_id THEN 403
  ELSE 0

CreatorDetail(status) ==
  IF status = 404 THEN "Expense not found" ELSE "Not authorized to modify this expense"

\* Mutant: the expense is split again, among the users of its split rows.
UpdateExpenseResplit(expense, set_value, value_in) ==
  LET value == IF set_value THEN NormalizeValue(value_in) ELSE expense.value
  IN [expense EXCEPT !.value = value,
                     !.splits = CreateExpenseSplits(
                                  [k \in DOMAIN expense.splits |-> expense.splits[k].user_id],
                                  value)]

\* update_expense: sqlmodel_update with the fields the request sets; the
\* ExpenseSplit rows are not touched.
UpdateExpense(expense, set_value, value_in) ==
  [expense EXCEPT !.value = IF set_value THEN NormalizeValue(value_in) ELSE @]

\* PATCH /expenses/{expense_id}: get_expense_as_creator, ExpenseUpdate's
\* validator, update_expense. set_value is FALSE for a request without value.
UpdateGroupExpense(user_id, expense_id, set_value, value_in) ==
  LET denied == ExpenseAsCreator(user_id, expense_id)
  IN IF denied # 0
     THEN /\ response' = Reply(denied, CreatorDetail(denied))
          /\ UNCHANGED <<ledger, joins, pure>>
     ELSE /\ expenses' = [expenses EXCEPT ![expense_id] =
                            UpdateExpense(@, set_value, value_in)]
          /\ response' = Reply(200, "")
          /\ UNCHANGED <<members, settlements, joins, pure>>

\* Mutant: the expense is kept, with a zero amount, and so are its split rows.
DeleteExpenseSoft(exps, expense_id) == [exps EXCEPT ![expense_id].value = 0]

\* delete_expense: the Expense row is deleted, and its ExpenseSplit rows with
\* it (ondelete CASCADE).
DeleteExpense(exps, expense_id) == RemoveAt(exps, expense_id)

\* DELETE /expenses/{expense_id}: get_expense_as_creator, delete_expense.
DeleteGroupExpense(user_id, expense_id) ==
  LET denied == ExpenseAsCreator(user_id, expense_id)
  IN IF denied # 0
     THEN /\ response' = Reply(denied, CreatorDetail(denied))
          /\ UNCHANGED <<ledger, joins, pure>>
     ELSE /\ expenses' = DeleteExpense(expenses, expense_id)
          /\ response' = Reply(204, "")
          /\ UNCHANGED <<members, settlements, joins, pure>>

\* next(entry for entry in owed_by_user if entry.user_id == creditor_id):
\* the entries for the creditor (none or one).
OwedEntries(debts, creditor_id) ==
  {debts.owed_by_user[k] : k \in {j \in DOMAIN debts.owed_by_user :
                                    debts.owed_by_user[j].user_id = creditor_id}}

\* Mutant: the amount is not compared with the outstanding debt.
ExceedsOutstandingNever(amount, owed_amount) == FALSE

\* Mutant: the amount may be up to twice the outstanding debt.
ExceedsOutstandingTwice(amount, owed_amount) == amount > 2 * owed_amount

\* settlement_in.amount > owed_entry.amount
ExceedsOutstanding(amount, owed_amount) == amount > owed_amount

\* The status and detail with which create_group_settlement_payment refuses
\* the request; status 0 when it records the settlement.
SettlementRefusal(user_id, creditor_id, amount_in) ==
  LET debts == CalculateUserDebts(expenses, settlements, user_id)
      entries == OwedEntries(debts, creditor_id)
  IN IF ~IsMember(user_id) THEN <<404, "Group not found">>
     ELSE IF amount_in <= 0 THEN <<422, "Amount must be greater than zero">>
     ELSE IF creditor_id = user_id
       THEN <<400, "Creditor must be a different group member">>
     ELSE IF ~IsMember(creditor_id) THEN <<404, "Member not found">>
     ELSE IF debts.owed_by_user_total <= 0
       THEN <<400, "No outstanding debt to settle">>
     ELSE IF entries = {}
       THEN <<400, "No outstanding debt for selected member">>
     ELSE IF \E e \in entries : ExceedsOutstanding(quantize_currency(amount_in), e.amount)
       THEN <<400, "Amount exceeds outstanding debt">>
     ELSE <<0, "">>

\* create_group_settlement: the row that is appended.
SettlementRow(debtor_id, creditor_id, amount) ==
  [debtor_id |-> debtor_id, creditor_id |-> creditor_id,
   amount |-> quantize_currency(amount)]

\* POST /groups/{group_id}/settlements/: create_group_settlement_payment.
CreateGroupSettlementPayment(user_id, creditor_id, amount_in) ==
  LET refusal == SettlementRefusal(user_id, creditor_id, amount_in)
      amount == quantize_currency(amount_in)
      after == Append(settlements, SettlementRow(user_id, creditor_id, amount))
  IN IF refusal[1] # 0
     THEN /\ response' = Reply(refusal[1], refusal[2])
          /\ UNCHANGED <<ledger, joins, pure>>
     ELSE /\ settlements' = after
          /\ response' = Reply(201, "")
          /\ UNCHANGED <<members, expenses, joins, pure>>

(* --------------------------- join requests ----------------------------- *)
MAX_JOIN_REQUEST_ATTEMPTS == 3

\* ExpenseGroup.created_by: create_group adds the creator's membership row
\* first, and no route removes a membership row.
Owner == members[1]

\* get_group_as_owner: 0 when the group is returned, else the status.
GroupAsOwner(user_id) ==
  IF ~IsMember(user_id) THEN 404
  ELSE IF Owner # user_id THEN 403
  ELSE 0

OwnerDetail(status) ==
  IF status = 404 THEN "Group not found" ELSE "Not authorized to modify this group"

\* get_pending_join_request: the ids of the user's PENDING requests.
PendingJoinRequests(user_id) ==
  {i \in DOMAIN join_requests :
     join_requests[i].user_id = user_id /\ join_requests[i].status = "pending"}

\* Mutant: no pending request is ever found.
GetPendingJoinRequestNone(user_id) == 0

\* pending_request = get_pending_join_request(...): the id of the request
\* that is returned, 0 for None.
GetPendingJoinRequest(user_id) ==
  IF PendingJoinRequests(user_id) = {} THEN 0
  ELSE CHOOSE i \in PendingJoinRequests(user_id) : TRUE

\* count_declined_join_requests
CountDeclinedJoinRequests(user_id) ==
  Cardinality({i \in DOMAIN join_requests :
                 join_requests[i].user_id = user_id /\ join_requests[i].status = "declined"})

\* Mutant: the limit is reached one declined request later.
JoinRequestLimitReachedLate(declined_count) ==
  declined_count > MAX_JOIN_REQUEST_ATTEMPTS

\* if declined_count >= MAX_JOIN_REQUEST_ATTEMPTS
JoinRequestLimitReached(declined_count) ==
  declined_count >= MAX_JOIN_REQUEST_ATTEMPTS

\* Mutant: the membership check of create_join_request_by_invite_code is skipped.
AlreadyMemberNever(user_id) == FALSE

\* if is_member(...): raise ValueError("User already a member")
AlreadyMember(user_id) == IsMember(user_id)

\* ExpenseGroupJoinRequest(group_id, user_id): status PENDING, not resolved.
NewJoinRequest(user_id) ==
  [user_id |-> user_id, status |-> "pending", resolved_by |-> 0]

\* POST /groups/join/: join_group_by_code, create_join_request_by_invite_code.
\* code_found is FALSE for a code that is not the group's invite code.
JoinGroupByCode(user_id, code_found) ==
  IF ~code_found
  THEN /\ response' = Reply(404, "Group not found")
       /\ UNCHANGED <<ledger, joins, pure>>
  ELSE IF AlreadyMember(user_id)
  THEN /\ response' = Reply(400, "You are already a member of this group")
       /\ UNCHANGED <<ledger, joins, pure>>
  ELSE IF GetPendingJoinRequest(user_id) # 0
  THEN /\ response' = Reply(200, "")
       /\ UNCHANGED <<ledger, joins, pure>>
  ELSE IF JoinRequestLimitReached(CountDeclinedJoinRequests(user_id))
  THEN /\ response' = Reply(400, "Join request limit reached for this group")
       /\ UNCHANGED <<ledger, joins, pure>>
  ELSE /\ join_requests' = Append(join_requests, NewJoinRequest(user_id))
       /\ response' = Reply(201, "")
       /\ UNCHANGED <<ledger, pure>>

\* Mutant: a request is never taken for resolved.
AlreadyResolvedNever(request) == FALSE

\* if join_request.status != JoinRequestStatus.PENDING
AlreadyResolved(request) == request.status # "pending"

\* The status and detail with which accept and decline refuse the request;
\* status 0 when the request is resolved.  join_requests holds the rows of
\* this group: an id outside it is an id of no row or of another group's row,
\* which the routes answer alike.
ResolveRefusal(user_id, request_id) ==
  LET denied == GroupAsOwner(user_id)
  IN IF denied # 0 THEN <<denied, OwnerDetail(denied)>>
     ELSE IF request_id \notin DOMAIN join_requests
       THEN <<404, "Join request not found">>
     ELSE IF AlreadyResolved(join_requests[request_id])
       THEN <<400, "Join request already resolved">>
     ELSE <<0, "">>

\* resolve_join_request
ResolveJoinRequest(request_id, status, resolved_by) ==
  [join_requests EXCEPT ![request_id].status = status,
                        ![request_id].resolved_by = resolved_by]

\* Mutant: add_member is called without looking for a membership row.
EnsureMemberAlwaysAdd(rows, user_id) == AddMemberRow(rows, user_id)

\* if not get_member(...): add_member(...)
EnsureMember(rows, user_id) ==
  IF user_id \in Range(rows) THEN rows ELSE AddMemberRow(rows, user_id)

\* POST /groups/{group_id}/join-requests/{request_id}/accept/
AcceptGroupJoinRequest(user_id, request_id) ==
  LET refusal == ResolveRefusal(user_id, request_id)
  IN IF refusal[1] # 0
     THEN /\ response' = Reply(refusal[1], refusal[2])
          /\ UNCHANGED <<ledger, joins, pure>>
     ELSE /\ join_requests' = ResolveJoinRequest(request_id, "accepted", user_id)
          /\ members' = EnsureMember(members, join_requests[request_id].user_id)
          /\ response' = Reply(200, "")
          /\ UNCHANGED <<expenses, settlements, pure>>

\* POST /groups/{group_id}/join-requests/{request_id}/decline/
DeclineGroupJoinRequest(user_id, request_id) ==
  LET refusal == ResolveRefusal(user_id, request_id)
  IN IF refusal[1] # 0
     THEN /\ response' = Reply(refusal[1], refusal[2])
          /\ UNCHANGED <<ledger, joins, pure>>
     ELSE /\ join_requests' = ResolveJoinRequest(request_id, "declined", user_id)
          /\ response' = Reply(200, "")
          /\ UNCHANGED <<ledger, pure>>

Next ==
  \/ \E u \in Users : AddMember(u)
  \/ \E u \in Users, v \in ExpenseValues :
       Len(expenses) < MaxExpenses /\ CreateGroupExpense(u, v)
  \/ \E u \in Users, i \in 1..MaxExpenses, s \in BOOLEAN :
       \E v \in IF s THEN ExpenseValues ELSE {0} : UpdateGroupExpense(u, i, s, v)
  \/ \E u \in Users, i \in 1..MaxExpenses : DeleteGroupExpense(u, i)
  \/ \E u \in Users, c \in Users, a \in SettlementAmounts :
       Len(settlements) < MaxSettlements /\ CreateGroupSettlementPayment(u, c, a)

Spec == Init /\ [][Next]_vars

\* The expense operations on their own: members join, and expenses are
\* created, updated and deleted; no settlement is recorded.
NextExpenses ==
  \/ \E u \in Users : AddMember(u)
  \/ \E u \in Users, v \in ExpenseValues :
       Len(expenses) < MaxStoredExpenses /\ CreateGroupExpense(u, v)
  \/ \E u \in Users, i \in 1..MaxStoredExpenses, s \in BOOLEAN :
       \E v \in IF s THEN ExpenseValues ELSE {0} : UpdateGroupExpense(u, i, s, v)
  \/ \E u \in Users, i \in 1..MaxStoredExpenses : DeleteGroupExpense(u, i)

SpecExpenses == Init /\ [][NextExpenses]_vars

\* Expenses are created and deleted while settlements are recorded.
NextDelete ==
  \/ \E u \in Users : AddMember(u)
  \/ \E u \in Users, v \in ExpenseValues :
       Len(expenses) < MaxStoredExpenses /\ CreateGroupExpense(u, v)
  \/ \E u \in Users, i \in 1..MaxStoredExpenses : DeleteGroupExpense(u, i)
  \/ \E u \in Users, c \in Users, a \in SettlementAmounts :
       Len(settlements) < MaxSettlementRows /\ CreateGroupSettlementPayment(u, c, a)

SpecDelete == Init /\ [][NextDelete]_vars

\* The expense operations on a group that stores up to MaxExpenses expenses.
NextModify ==
  \/ \E u \in Users : AddMember(u)
  \/ \E u \in Users, v \in ExpenseValues :
       Len(expenses) < MaxExpenses /\ CreateGroupExpense(u, v)
  \/ \E u \in Users, i \in 1..MaxExpenses, s \in BOOLEAN :
       \E v \in IF s THEN ExpenseValues ELSE {0} : UpdateGroupExpense(u, i, s, v)
  \/ \E u \in Users, i \in 1..MaxExpenses : DeleteGroupExpense(u, i)

SpecModify == Init /\ [][NextModify]_vars

\* Joining by invite code: requests are made, accepted and declined, and
\* members record expenses.
NextJoin ==
  \/ \E u \in Users, f \in BOOLEAN :
       Len(join_requests) < MaxJoinRequests /\ JoinGroupByCode(u, f)
  \/ \E u \in Users, i \in 1..MaxJoinRequests : AcceptGroupJoinRequest(u, i)
  \/ \E u \in Users, i \in 1..MaxJoinRequests : DeclineGroupJoinRequest(u, i)
  \/ \E u \in Users, v \in ExpenseValues :
       Len(expenses) < MaxExpenses /\ CreateGroupExpense(u, v)

SpecJoin == Init /\ [][NextJoin]_vars

\* The join flow next to add_member called on its own, as the service
\* offers it.  result is the set of users who were added that way.
InitAccept ==
  /\ \E creator \in Users : members = <<creator>>
  /\ expenses = <<>>
  /\ settlements = <<>>
  /\ join_requests = <<>>
  /\ response = NoReply
  /\ arg = 0
  /\ result = {}
  /\ pc = "ledger"

\* add_member(session, group, user_id); a second membership row of the user
\* is refused by the table's UniqueConstraint("group_id", "user_id").
AddMemberDirectly(user_id) ==
  /\ ~IsMember(user_id)
  /\ members' = AddMemberRow(members, user_id)
  /\ result' = result \cup {user_id}
  /\ UNCHANGED <<expenses, settlements, joins, response, arg, pc>>

NextAccept ==
  \/ \E u \in Users, f \in BOOLEAN :
       Len(join_requests) < MaxJoinRequests /\ JoinGroupByCode(u, f)
  \/ \E u \in Users, i \in 1..MaxJoinRequests : AcceptGroupJoinRequest(u, i)
  \/ \E u \in Users, i \in 1..MaxJoinRequests : DeclineGroupJoinRequest(u, i)
  \/ \E u \in Users : AddMemberDirectly(u)

SpecAccept == InitAccept /\ [][NextAccept]_vars

\* Creating the group.  create_group commits the ExpenseGroup row and then
\* calls add_member, which commits the creator's membership row: two steps,
\* between which other requests are served.  arg holds group.created_by
\* between the two.
InitGroup ==
  /\ members = <<>>
  /\ expenses = <<>>
  /\ settlements = <<>>
  /\ join_requests = <<>>
  /\ response = NoReply
  /\ arg = 0
  /\ result = 0
  /\ pc = "no group"

\* create_group up to the commit of the ExpenseGroup row.
CreateGroupRow(user_id) ==
  /\ pc = "no group"
  /\ arg' = user_id
  /\ pc' = "create_group"
  /\ UNCHANGED <<ledger, joins, response, result>>

\* create_group from add_member to its return; POST /groups/ answers 201.
CreateGroupAddMember ==
  /\ pc = "create_group"
  /\ members' = AddMemberRow(members, arg)
  /\ response' = Reply(201, "")
  /\ arg' = 0
  /\ pc' = "ledger"
  /\ UNCHANGED <<expenses, settlements, joins, result>>

NextGroup ==
  \/ \E u \in Users : CreateGroupRow(u)
  \/ CreateGroupAddMember
  \/ \E u \in Users : pc = "ledger" /\ AddMember(u)
  \/ \E u \in Users, v \in ExpenseValues :
       Len(expenses) < MaxStoredExpenses /\ CreateGroupExpense(u, v)

SpecGroup == InitGroup /\ [][NextGroup]_vars

\* Expenses and settlements in a group of NumParties members, who joined in
\* the order of their ids.
InitParties ==
  /\ members = [i \in Parties |-> i]
  /\ expenses = <<>>
  /\ settlements = <<>>
  /\ join_requests = <<>>
  /\ response = NoReply
  /\ arg = 0
  /\ result = 0
  /\ pc = "ledger"

\* Request values that are positive.
PartyExpenseValues == {10, 15, 50}

NextParties ==
  \/ \E u \in Parties, v \in PartyExpenseValues :
       Len(expenses) < MaxStoredExpenses /\ CreateGroupExpense(u, v)
  \/ \E u \in Parties, c \in Parties, a \in SettlementAmounts :
       Len(settlements) < MaxSettlementRows /\ CreateGroupSettlementPayment(u, c, a)

SpecParties == InitParties /\ [][NextParties]_vars

\* Settlement requests served at the same time, by workers that share the
\* database and nothing else.  A request reads the committed rows, makes its
\* checks, and commits its row later: pc[r] is where request r stands and
\* arg[r] the row it is about to add.  No lock is taken and no row is read
\* again before the commit.
Requests == 1..NumRequests

InitConcurrent ==
  /\ \E creator \in Users : members = <<creator>>
  /\ expenses = <<>>
  /\ settlements = <<>>
  /\ join_requests = <<>>
  /\ response = NoReply
  /\ arg = [r \in Requests |-> 0]
  /\ result = 0
  /\ pc = [r \in Requests |-> "idle"]

\* create_group_settlement_payment up to the call of create_group_settlement:
\* the checks, on the rows committed so far.
SettlementValidate(r, user_id, creditor_id, amount_in) ==
  LET refusal == SettlementRefusal(user_id, creditor_id, amount_in)
  IN /\ pc[r] = "idle"
     /\ IF refusal[1] # 0
        THEN /\ response' = Reply(refusal[1], refusal[2])
             /\ UNCHANGED <<arg, pc>>
        ELSE /\ arg' = [arg EXCEPT ![r] = SettlementRow(user_id, creditor_id, amount_in)]
             /\ pc' = [pc EXCEPT ![r] = "validated"]
             /\ UNCHANGED response
     /\ UNCHANGED <<ledger, joins, result>>

\* create_group_settlement: session.add(settlement); session.commit()
SettlementCommit(r) ==
  /\ pc[r] = "validated"
  /\ settlements' = Append(settlements, arg[r])
  /\ response' = Reply(201, "")
  /\ arg' = [arg EXCEPT ![r] = 0]
  /\ pc' = [pc EXCEPT ![r] = "idle"]
  /\ UNCHANGED <<members, expenses, joins, result>>

\* The expenses are recorded before the first settlement request arrives.
NoSettlementYet ==
  settlements = <<>> /\ \A r \in Requests : pc[r] = "idle"

NextConcurrent ==
  \/ \E u \in Users : NoSettlementYet /\ AddMember(u)
  \/ \E u \in Users, v \in PartyExpenseValues :
       NoSettlementYet /\ Len(expenses) < MaxExpenses /\ CreateGroupExpense(u, v)
  \/ \E r \in Requests, u \in Users, c \in Users, a \in SettlementAmounts :
       Len(settlements) < MaxSettlements /\ SettlementValidate(r, u, c, a)
  \/ \E r \in Requests : SettlementCommit(r)

SpecConcurrent == InitConcurrent /\ [][NextConcurrent]_vars

(* --------------------- the pure operations, on their own --------------- *)
NoLedger ==
  /\ expenses = <<>>
  /\ settlements = <<>>
  /\ join_requests = <<>>
  /\ response = NoReply

\* quantize_currency on every Decimal of up to three decimal places.
InitQuantize ==
  /\ arg \in (-MaxMills)..MaxMills
  /\ result = 0
  /\ pc = "call"
  /\ members = <<>>
  /\ NoLedger

QuantizeCurrency ==
  /\ pc = "call"
  /\ result' = quantize_currency(arg)
  /\ pc' = "done"
  /\ UNCHANGED <<ledger, joins, response, arg>>

NextQuantize == QuantizeCurrency

SpecQuantize == InitQuantize /\ [][NextQuantize]_vars

\* _create_expense_splits on every stored (two-decimal) expense value and
\* every set of membership rows, in every order of joining.
InitSplit ==
  /\ arg \in {c * CENT : c \in (-MaxCents)..MaxCents}
  /\ members \in InjectiveSeqs(Users)
  /\ result = <<>>
  /\ pc = "call"
  /\ NoLedger

AllocateSplits ==
  /\ pc = "call"
  /\ result' = CreateExpenseSplits(members, arg)
  /\ pc' = "done"
  /\ UNCHANGED <<ledger, joins, response, arg>>

NextSplit == AllocateSplits

SpecSplit == InitSplit /\ [][NextSplit]_vars

\* The minimizer on every map of two-decimal balances that sums to zero.
ZeroSumBalances ==
  {b \in [Parties -> {c * CENT : c \in (-MaxBalance)..MaxBalance}] :
     SumOver(b, Parties) = 0}

InitMinimize ==
  /\ arg \in ZeroSumBalances
  /\ members = <<>>
  /\ result = <<>>
  /\ pc = "call"
  /\ NoLedger

Minimize ==
  /\ pc = "call"
  /\ result' = MinimizeSettlement(arg)
  /\ pc' = "done"
  /\ UNCHANGED <<ledger, joins, response, arg>>

NextMinimize == Minimize

SpecMinimize == InitMinimize /\ [][NextMinimize]_vars

\* create_expense on every request value of up to three decimal places, of
\* either sign, and every non-empty set of membership rows; the requester is
\* the member who joined first.  CoffeeValue is the 10.001 of
\* test_rounds_value_up.
CoffeeValue == 10001

RequestValues == ((-MaxRequestMills)..MaxRequestMills) \cup {CoffeeValue}

InitCreate ==
  /\ arg \in RequestValues
  /\ members \in InjectiveSeqs(Users) \ {<<>>}
  /\ result = <<>>
  /\ pc = "call"
  /\ NoLedger

CreateExpenseCall ==
  /\ pc = "call"
  /\ result' = CreateExpense(members, members[1], arg)
  /\ pc' = "done"
  /\ UNCHANGED <<ledger, joins, response, arg>>

NextCreate == CreateExpenseCall

SpecCreate == InitCreate /\ [][NextCreate]_vars

\* The rows a ledger's two queries return, in the order they are returned:
\* the split query gives one row per (split user, creator) pair, the
\* settlement query one row per settlement.
RowPairs == {p \in Users \X Users : p[1] # p[2]}

SplitRowAmounts == {CENT, 2 * CENT}

SettlementRowAmounts == {CENT}

SeqsUpTo(S, n) == UNION {[1..k -> S] : k \in 0..n}

SplitRowSeqs ==
  {s \in SeqsUpTo(RowPairs \X SplitRowAmounts, MaxSplitRows) :
     \A i, j \in DOMAIN s : s[i][1] = s[j][1] => i = j}

RowOf(x) == <<x[1][1], x[1][2], x[2]>>

LedgerRows ==
  {[splits |-> [i \in DOMAIN s |-> RowOf(s[i])],
    settlements |-> [i \in DOMAIN t |-> RowOf(t[i])]] :
     s \in SplitRowSeqs,
     t \in SeqsUpTo(RowPairs \X SettlementRowAmounts, MaxSettlementRows)}

\* The per-user balance map of the rows, whatever their order.
BalanceMapOf(rows) == [u \in Users |-> OrderedGet(OrderedBalances(rows), u)]

\* The plan of a ledger next to the plan of any ledger with the same balance
\* map.
InitDeterminism ==
  /\ arg \in LedgerRows
  /\ members = <<>>
  /\ result = <<>>
  /\ pc = "call"
  /\ NoLedger

PlanBoth ==
  /\ pc = "call"
  /\ \E other \in LedgerRows :
       /\ BalanceMapOf(other) = BalanceMapOf(arg)
       /\ result' = [other |-> other, plan |-> OrderedPlan(arg),
                     other_plan |-> OrderedPlan(other)]
  /\ pc' = "done"
  /\ UNCHANGED <<ledger, joins, response, arg>>

NextDeterminism == PlanBoth

SpecDeterminism == InitDeterminism /\ [][NextDeterminism]_vars

\* The minimizer one loop iteration at a time, on every zero-sum map of
\* two-decimal balances.
InitGreedy ==
  /\ arg \in ZeroSumBalances
  /\ members = <<>>
  /\ result = <<>>
  /\ pc = "sort"
  /\ NoLedger

\* The partition into debtors and creditors and the two sorts.
SortParties ==
  /\ pc = "sort"
  /\ result' = LoopState(Debtors(arg), Creditors(arg), 1, 1, <<>>)
  /\ pc' = "loop"
  /\ UNCHANGED <<ledger, joins, response, arg>>

LoopIteration ==
  /\ pc = "loop"
  /\ LoopCondition(result)
  /\ result' = LoopBody(result)
  /\ UNCHANGED <<ledger, joins, response, arg, pc>>

\* return transfers
LoopExit ==
  /\ pc = "loop"
  /\ ~LoopCondition(result)
  /\ result' = result.transfers
  /\ pc' = "done"
  /\ UNCHANGED <<ledger, joins, response, arg>>

NextGreedy == SortParties \/ LoopIteration \/ LoopExit

SpecGreedy == InitGreedy /\ [][NextGreedy]_vars

(* ------------------------------- properties ---------------------------- *)
Max(a, b) == IF a >= b THEN a ELSE b

Balances == AggregateBalances(expenses, settlements)

BalanceOf(balances, u) == DictGet(balances, u)

Debts(u) == CalculateUserDebts(expenses, settlements, u)

RECURSIVE SumItemAmounts(_)
SumItemAmounts(items) ==
  IF items = <<>> THEN 0 ELSE Head(items).amount + SumItemAmounts(Tail(items))

RECURSIVE SumSplitShares(_)
SumSplitShares(splits) ==
  IF splits = <<>> THEN 0 ELSE Head(splits).share + SumSplitShares(Tail(splits))

\* A transfer (debtor, creditor, amount) applied to a balances map:
\* debtor += amount, creditor -= amount.
RECURSIVE ApplyTransfers(_, _)
ApplyTransfers(balances, transfers) ==
  IF transfers = <<>> THEN balances
  ELSE ApplyTransfers(
         [balances EXCEPT ![Head(transfers)[1]] = @ + Head(transfers)[3],
                          ![Head(transfers)[2]] = @ - Head(transfers)[3]],
         Tail(transfers))

\* C1: in every reachable ledger the per-user net balances of the aggregator
\* sum to exactly zero.
C1_BalanceConservation ==
  pc = "ledger" => SumOver(Balances, DOMAIN Balances) = 0

\* A ledger with a settlement row and users whose balance is not zero.
C1_Witness ==
  /\ pc = "ledger"
  /\ settlements # <<>>
  /\ expenses # <<>>
  /\ \E u \in DOMAIN Balances : Balances[u] > 0

\* C2: applying every transfer of the minimizer to a zero-sum map of
\* two-decimal balances leaves every balance zero; an all-zero map gives an
\* empty plan.
C2_SettlementCorrectness ==
  pc = "done" =>
    /\ \A u \in Parties : ApplyTransfers(arg, result)[u] = 0
    /\ (\A u \in Parties : arg[u] = 0) => result = <<>>

\* A plan of three transfers between two debtors and two creditors.
C2_Witness ==
  /\ pc = "done"
  /\ Len(result) = 3
  /\ Cardinality({u \in Parties : arg[u] < 0}) = 2

\* C3: the shares of _create_expense_splits sum to the total, each share is
\* floor(T/n) or floor(T/n)+1 cents, and each member has exactly one row.
C3_SplitConservation ==
  (pc = "done" /\ members # <<>>) =>
    LET T == ToCents(arg)
        n == Len(members)
    IN /\ SumSplitShares(result) = T * CENT
       /\ \A k \in DOMAIN result :
            result[k].share \in {(T \div n) * CENT, ((T \div n) + 1) * CENT}
       /\ Len(result) = n
       /\ \A m \in Range(members) :
            Cardinality({k \in DOMAIN result : result[k].user_id = m}) = 1

\* Three members share a total that three does not divide.
C3_Witness ==
  /\ pc = "done"
  /\ Len(members) = 3
  /\ ToCents(arg) % 3 = 2
  /\ Len(result) = 3

\* C4: with r = T mod n, exactly the r members with the smallest user ids get
\* base+1 cents and every other member gets base = T div n cents, whatever
\* the order in which the members joined.
C4_RemainderDistribution ==
  (pc = "done" /\ members # <<>>) =>
    LET T == ToCents(arg)
        n == Len(members)
        rank(u) == Cardinality({m \in Range(members) : m < u})
    IN /\ \A k \in DOMAIN result :
            result[k].share =
              ((T \div n) + (IF rank(result[k].user_id) < T % n THEN 1 ELSE 0)) * CENT
       /\ Cardinality({k \in DOMAIN result : result[k].share = ((T \div n) + 1) * CENT})
            = T % n

\* The members joined in descending id order; the remainder cent goes to the
\* member who joined last.
C4_Witness ==
  /\ pc = "done"
  /\ Len(members) = 3
  /\ members[1] > members[2] /\ members[2] > members[3]
  /\ ToCents(arg) % 3 = 1
  /\ \E k, j \in DOMAIN result :
       /\ result[k].user_id = members[3]
       /\ result[j].user_id = members[1]
       /\ result[k].share > result[j].share

\* C5: for every user with net balance b, calculate_user_debts returns
\* owed_to_user_total = max(b, 0) and owed_by_user_total = max(-b, 0), each
\* total is the sum of its item list, and a zero balance gives zero totals
\* and two empty lists.
C5_ViewEqualsNetBalance ==
  pc = "ledger" =>
    \A u \in Users :
      LET b == BalanceOf(Balances, u)
          d == Debts(u)
      IN /\ d.owed_to_user_total = Max(b, 0)
         /\ d.owed_by_user_total = Max(-b, 0)
         /\ d.owed_to_user_total = SumItemAmounts(d.owed_to_user)
         /\ d.owed_by_user_total = SumItemAmounts(d.owed_by_user)
         /\ b = 0 => (d.owed_to_user = <<>> /\ d.owed_by_user = <<>>)

\* After a settlement a creditor is still owed by two debtors.
C5_Witness ==
  /\ pc = "ledger"
  /\ settlements # <<>>
  /\ \E u \in Users : Len(Debts(u).owed_to_user) = 2

\* The condition under which create_group_settlement_payment records the
\* row: distinct member creditor, an owed-by entry of the requester for that
\* creditor, and an amount within that entry.
SettlementAllowed(row) ==
  /\ row.creditor_id # row.debtor_id
  /\ IsMember(row.creditor_id)
  /\ \E e \in OwedEntries(Debts(row.debtor_id), row.creditor_id) :
       row.amount <= e.amount

RejectionDetails ==
  {"Creditor must be a different group member", "Member not found",
   "No outstanding debt to settle", "No outstanding debt for selected member",
   "Amount exceeds outstanding debt"}

\* C6: a settlement row is appended only for a creditor who is another
\* member, to whom the requester's netted owed-by list has an entry of at
\* least the amount; a request that is rejected (self-settlement, non-member
\* creditor, no outstanding debt, amount above the outstanding debt) leaves
\* the ledger unchanged, and with it the balances and the reported debts,
\* which are functions of the ledger.
C6_SettlementGuard ==
  [][/\ settlements' # settlements =>
          /\ settlements' = Append(settlements, settlements'[Len(settlements')])
          /\ SettlementAllowed(settlements'[Len(settlements')])
          /\ response'.status = 201
          /\ UNCHANGED <<members, expenses>>
     /\ response'.detail \in RejectionDetails =>
          /\ response'.status \in {400, 404}
          /\ UNCHANGED ledger]_vars

\* An overpayment was rejected while the debt is still outstanding.
C6_Witness ==
  /\ pc = "ledger"
  /\ response = Reply(400, "Amount exceeds outstanding debt")
  /\ \E u \in Users : Debts(u).owed_by_user_total > 0

\* C7: a recorded settlement of amount a from d to c raises d's net balance
\* by a, lowers c's by a, changes no other balance and lowers d's
\* owed_by_user_total by a.
C7_SettlementEffect ==
  [][settlements' # settlements =>
       LET row == settlements'[Len(settlements')]
           after == AggregateBalances(expenses', settlements')
       IN /\ BalanceOf(after, row.debtor_id) = BalanceOf(Balances, row.debtor_id) + row.amount
          /\ BalanceOf(after, row.creditor_id) = BalanceOf(Balances, row.creditor_id) - row.amount
          /\ \A w \in Users \ {row.debtor_id, row.creditor_id} :
               BalanceOf(after, w) = BalanceOf(Balances, w)
          /\ CalculateUserDebts(expenses', settlements', row.debtor_id).owed_by_user_total
               = Debts(row.debtor_id).owed_by_user_total - row.amount]_vars

\* A partial payment: the debtor of a recorded settlement still owes.
C7_Witness ==
  /\ pc = "ledger"
  /\ response.status = 201
  /\ \E i \in DOMAIN settlements :
       /\ Debts(settlements[i].debtor_id).owed_by_user_total > 0
       /\ BalanceOf(Balances, settlements[i].creditor_id) > 0

\* C8: a zero-sum map with n >= 1 users of non-zero balance gives at most
\* n-1 transfers.
C8_TransferCountBound ==
  pc = "done" =>
    LET n == Cardinality({u \in Parties : arg[u] # 0})
    IN n >= 1 => Len(result) <= n - 1

\* Four users with a non-zero balance and a plan of exactly three transfers.
C8_Witness ==
  /\ pc = "done"
  /\ \A u \in Parties : arg[u] # 0
  /\ Len(result) = NumParties - 1

\* The amounts of the items of a list that name a user (none or one).
EntryAmounts(items, u) ==
  {items[k].amount : k \in {j \in DOMAIN items : items[j].user_id = u}}

\* C9: A's owed_to entry for B exists exactly when B's owed_by entry for A
\* exists, and the two carry the same amount.
C9_NettingSymmetry ==
  pc = "ledger" =>
    \A A, B \in Users :
      A # B =>
        /\ EntryAmounts(Debts(A).owed_to_user, B) = EntryAmounts(Debts(B).owed_by_user, A)
        /\ Cardinality(EntryAmounts(Debts(A).owed_to_user, B)) <= 1

\* B owes A after a settlement, and A's view lists B.
C9_Witness ==
  /\ pc = "ledger"
  /\ settlements # <<>>
  /\ \E A, B \in Users :
       /\ A # B
       /\ EntryAmounts(Debts(A).owed_to_user, B) # {}
       /\ EntryAmounts(Debts(B).owed_by_user, A) # {}

\* C10 as stated: round-half-up, an excess below half a cent is dropped.
C10_RoundHalfUp ==
  pc = "done" =>
    LET excess == Abs(arg) % CENT
    IN /\ 2 * excess < CENT => Abs(result) = Abs(arg) - excess
       /\ 2 * excess >= CENT => Abs(result) = Abs(arg) - excess + CENT

\* C10, amended: quantize_currency rounds to two decimal places away from
\* zero: a value with any non-zero excess beyond the cent goes to the next
\* cent of larger magnitude, and a two-decimal value is returned unchanged.
C10_RoundUp ==
  pc = "done" =>
    LET excess == Abs(arg) % CENT
    IN /\ result % CENT = 0
       /\ (arg >= 0) = (result >= 0)
       /\ excess = 0 => result = arg
       /\ excess # 0 => Abs(result) = Abs(arg) - excess + CENT

\* 10.001 is quantized to 10.01.
C10_Witness ==
  /\ pc = "done"
  /\ arg = 10001
  /\ result = 10010

C12_OnlyPositiveAmounts ==
  pc = "ledger" =>
    /\ \A i \in DOMAIN expenses :
         /\ expenses[i].value > 0
         /\ \A k \in DOMAIN expenses[i].splits : expenses[i].splits[k].share >= 0
    /\ \A j \in DOMAIN settlements : settlements[j].amount > 0

\* C13: in every state reached by creating, updating and deleting expenses,
\* the split shares of every stored expense sum exactly to the expense's
\* current amount.
C13_SplitSumInvariant ==
  pc = "ledger" =>
    \A i \in DOMAIN expenses :
      SumSplitShares(expenses[i].splits) = expenses[i].value

\* The membership rows of a user.
MembershipRows(rows, user_id) == {i \in DOMAIN rows : rows[i] = user_id}

C15_GroupCreation ==
  [][/\ (pc = "create_group" /\ pc' = "ledger") => members' = <<arg>>
     /\ pc' = "ledger" => Len(members') >= 1
     /\ Len(expenses') > Len(expenses) =>
          /\ Len(members) >= 1
          /\ Len(expenses'[Len(expenses')].splits) = Len(members)]_vars

\* The creator, still the only member, recorded an expense.
C15_Witness ==
  /\ pc = "ledger"
  /\ Len(members) = 1
  /\ Len(expenses) = 1
  /\ expenses[1].created_by = members[1]

\* A PATCH or DELETE of expense i by user u, with any request body.
ModifyExpense(u, i) ==
  \/ \E v \in ExpenseValues : UpdateGroupExpense(u, i, TRUE, v)
  \/ UpdateGroupExpense(u, i, FALSE, 0)
  \/ DeleteGroupExpense(u, i)

\* C16: an update or delete of an expense takes effect only for a requester
\* who is a member of the group and the expense's creator; a member who is not
\* the creator is answered 403 not authorized, a non-member 404 not found, and
\* then the expenses, their splits and every balance are unchanged.
C16_ModificationRights ==
  [][\A u \in Users : \A i \in DOMAIN expenses :
       ModifyExpense(u, i) =>
         IF IsMember(u) /\ expenses[i].created_by = u
         THEN response'.status \in {200, 204}
         ELSE /\ response' = IF IsMember(u)
                             THEN Reply(403, "Not authorized to modify this expense")
                             ELSE Reply(404, "Expense not found")
              /\ expenses' = expenses
              /\ \A w \in Users :
                   BalanceOf(AggregateBalances(expenses', settlements'), w)
                     = BalanceOf(Balances, w)]_vars

\* A member who did not create the expense was refused, and the creator's
\* balance stands.
C16_Witness ==
  /\ pc = "ledger"
  /\ response = Reply(403, "Not authorized to modify this expense")
  /\ \E i \in DOMAIN expenses : BalanceOf(Balances, expenses[i].created_by) > 0

\* What a party has paid, or received, in a list of transfers.
RECURSIVE Paid(_, _)
Paid(transfers, u) ==
  IF transfers = <<>> THEN 0
  ELSE (IF Head(transfers)[1] = u THEN Head(transfers)[3] ELSE 0) + Paid(Tail(transfers), u)

RECURSIVE Received(_, _)
Received(transfers, u) ==
  IF transfers = <<>> THEN 0
  ELSE (IF Head(transfers)[2] = u THEN Head(transfers)[3] ELSE 0) + Received(Tail(transfers), u)

\* The remaining owed amount of a debtor and remaining credit of a creditor
\* of the balances map arg after the transfers so far.
RemainingOwed(transfers, u) == (-arg[u]) - Paid(transfers, u)

RemainingCredit(transfers, u) == arg[u] - Received(transfers, u)

UnsettledDebtors(transfers) ==
  {u \in Parties : arg[u] < 0 /\ RemainingOwed(transfers, u) > 0}

UnsettledCreditors(transfers) ==
  {u \in Parties : arg[u] > 0 /\ RemainingCredit(transfers, u) > 0}

\* The party of S with the largest amount f[u], the smallest id among equals.
Largest(S, f) ==
  CHOOSE u \in S : \A w \in S \ {u} : f[u] > f[w] \/ (f[u] = f[w] /\ u < w)

\* An iteration of the loop that records a transfer.
RecordsTransfer ==
  /\ pc = "loop" /\ pc' = "loop"
  /\ Len(result'.transfers) = Len(result.transfers) + 1

\* C17 as stated: every iteration records the transfer from the unsettled
\* debtor with the largest remaining owed amount to the unsettled creditor
\* with the largest remaining credit (ties by ascending user id), of the
\* minimum of those two remaining amounts.
C17_LargestRemaining ==
  [][RecordsTransfer =>
       LET done == result.transfers
           d == Largest(UnsettledDebtors(done),
                        [u \in Parties |-> RemainingOwed(done, u)])
           c == Largest(UnsettledCreditors(done),
                        [u \in Parties |-> RemainingCredit(done, u)])
       IN result'.transfers[Len(result'.transfers)]
            = <<d, c, Min(RemainingOwed(done, d), RemainingCredit(done, c))>>]_vars

\* C17, amended: every iteration records the transfer from the first unsettled
\* debtor to the first unsettled creditor in the order the lists were sorted
\* in before the loop, by descending initial amount and ascending user id, of
\* the minimum of the two remaining amounts.
C17_SortedOnce ==
  [][RecordsTransfer =>
       LET done == result.transfers
           d == Largest(UnsettledDebtors(done), [u \in Parties |-> -arg[u]])
           c == Largest(UnsettledCreditors(done), [u \in Parties |-> arg[u]])
       IN result'.transfers[Len(result'.transfers)]
            = <<d, c, Min(RemainingOwed(done, d), RemainingCredit(done, c))>>]_vars

\* Mid-loop, the creditor at the pointer has less left than the next creditor
\* and is paid the second transfer all the same.
C17_Witness ==
  /\ pc = "loop"
  /\ Len(result.transfers) = 2
  /\ result.transfers[1][2] = result.transfers[2][2]
  /\ \E w \in Parties :
       /\ w # result.transfers[1][2]
       /\ arg[w] > arg[result.transfers[1][2]] - result.transfers[1][3]

\* C18: two ledgers with equal per-user balance maps have identical transfer
\* lists, entries and order, whatever the order in which their split and
\* settlement rows are read and their users first met.
C18_PlanDeterminism ==
  pc = "done" => result.plan = result.other_plan

\* Two creditors of equal amount are met in opposite orders by the two
\* ledgers, and the plan pays both.
C18_Witness ==
  /\ pc = "done"
  /\ Len(result.plan) = 2
  /\ arg.settlements # <<>>
  /\ LET d == OrderedBalances(arg)
         e == OrderedBalances(result.other)
     IN \E i, j \in DOMAIN d : \E k, l \in DOMAIN e :
          /\ i < j /\ l < k
          /\ d[i][1] = e[k][1] /\ d[j][1] = e[l][1]
          /\ d[i][2] = d[j][2] /\ d[i][2] > 0

\* An update_expense that took effect: the only request answered 200 that
\* leaves the membership rows as they are.
ExpenseUpdated ==
  /\ response'.status = 200
  /\ members' = members
  /\ join_requests' = join_requests

\* C19: update_expense, also when it changes the amount, leaves every split
\* row of the expense as it is, and with them every user's balance and the
\* settlement plan.
C19_UpdateKeepsSplits ==
  [][ExpenseUpdated =>
       /\ Len(expenses') = Len(expenses)
       /\ \A i \in DOMAIN expenses :
            /\ expenses'[i].splits = expenses[i].splits
            /\ expenses'[i].created_by = expenses[i].created_by
       /\ \A w \in Users :
            BalanceOf(AggregateBalances(expenses', settlements'), w)
              = BalanceOf(Balances, w)
       /\ CalculateGroupSettlementPlan(expenses', settlements')
            = CalculateGroupSettlementPlan(expenses, settlements)]_vars

\* An expense shared with another member had its amount changed: its shares
\* no longer sum to it, and the creator is still owed.
C19_Witness ==
  /\ pc = "ledger"
  /\ response = Reply(200, "")
  /\ \E i \in DOMAIN expenses :
       /\ expenses[i].value # SumSplitShares(expenses[i].splits)
       /\ BalanceOf(Balances, expenses[i].created_by) > 0

\* What one expense contributes to a user's net balance: its creator is owed
\* the shares of the others, and each of the others owes their share.
RECURSIVE SharesOfOthers(_, _)
SharesOfOthers(splits, creator) ==
  IF splits = <<>> THEN 0
  ELSE (IF Head(splits).user_id # creator THEN Head(splits).share ELSE 0)
       + SharesOfOthers(Tail(splits), creator)

Contribution(expense, w) ==
  IF w = expense.created_by THEN SharesOfOthers(expense.splits, w)
  ELSE -SumShares(expense.splits, w)

\* C20: after delete_expense every user's net balance is the balance of the
\* same ledger without that expense and its splits; the settlement rows, the
\* membership rows and the other expenses with their splits are unchanged.
C20_DeleteRemovesContribution ==
  [][response'.status = 204 =>
       \E i \in DOMAIN expenses :
         /\ Len(expenses') = Len(expenses) - 1
         /\ \A j \in DOMAIN expenses' :
              expenses'[j] = IF j < i THEN expenses[j] ELSE expenses[j + 1]
         /\ settlements' = settlements
         /\ members' = members
         /\ \A w \in Users :
              BalanceOf(AggregateBalances(expenses', settlements'), w)
                = BalanceOf(Balances, w) - Contribution(expenses[i], w)]_vars

\* An expense was deleted from a ledger that keeps another expense and a
\* settlement, and a balance is not zero.
C20_Witness ==
  /\ pc = "ledger"
  /\ response.status = 204
  /\ Len(expenses) = 1
  /\ settlements # <<>>
  /\ \E w \in Users : BalanceOf(Balances, w) # 0

\* The users of the split rows of an expense.
SplitUsers(expense) == {expense.splits[k].user_id : k \in DOMAIN expense.splits}

\* C21: a created expense has one split row for each user who is a member
\* at that moment and for nobody else; accepting a join request leaves every
\* expense with its splits and every existing balance unchanged, the new
\* member has no split row and a zero balance, and a member is in the splits
\* of the expenses created after they joined.
C21_MembershipSnapshot ==
  [][/\ Len(expenses') > Len(expenses) =>
          LET new == expenses'[Len(expenses')]
          IN /\ SplitUsers(new) = Range(members)
             /\ Len(new.splits) = Len(members)
             /\ SubSeq(expenses', 1, Len(expenses)) = expenses
     /\ members' # members =>
          LET joined == members'[Len(members')]
          IN /\ members' = Append(members, joined)
             /\ expenses' = expenses
             /\ \A i \in DOMAIN expenses : joined \notin SplitUsers(expenses[i])
             /\ BalanceOf(AggregateBalances(expenses', settlements'), joined) = 0
             /\ \A w \in Users :
                  BalanceOf(AggregateBalances(expenses', settlements'), w)
                    = BalanceOf(Balances, w)]_vars

\* A user was accepted, an expense was then split with them, and a third user
\* was accepted after it: the expense has two split rows for three members,
\* and the last member's balance is zero while the first two are not.
C21_Witness ==
  /\ pc = "ledger"
  /\ Len(members) = 3
  /\ Len(expenses) = 1
  /\ SplitUsers(expenses[1]) = {members[1], members[2]}
  /\ BalanceOf(Balances, members[1]) # 0
  /\ BalanceOf(Balances, members[3]) = 0
  /\ \E i \in DOMAIN join_requests :
       join_requests[i].user_id = members[3] /\ join_requests[i].status = "accepted"

\* The netted owed-by entry of debtor d for creditor c in a ledger: its
\* amount, or 0 when the list has no entry for c.
OwedByAmount(exps, setts, d, c) ==
  LET items == CalculateUserDebts(exps, setts, d).owed_by_user
      found == {k \in DOMAIN items : items[k].user_id = c}
  IN IF found = {} THEN 0 ELSE items[CHOOSE k \in found : TRUE].amount

\* C22 as stated: after a recorded settlement of amount a from d to c, d's
\* owed-by entry for c is its previous amount less a (no entry when that is
\* zero) and d's owed-by entries for every other creditor are as before.
C22_PairwiseEffect ==
  [][settlements' # settlements =>
       LET row == settlements'[Len(settlements')]
       IN \A w \in Parties :
            OwedByAmount(expenses', settlements', row.debtor_id, w)
              = OwedByAmount(expenses, settlements, row.debtor_id, w)
                  - (IF w = row.creditor_id THEN row.amount ELSE 0)]_vars

\* The users with a negative, and with a positive, net balance in a ledger.
NetDebtors(exps, setts) ==
  {w \in Parties : BalanceOf(AggregateBalances(exps, setts), w) < 0}

NetCreditors(exps, setts) ==
  {w \in Parties : BalanceOf(AggregateBalances(exps, setts), w) > 0}

\* C22, amended: after a recorded settlement of amount a from d to c, d's
\* owed-by entries are those of the plan minimized again: they sum to their
\* previous sum less a; and when before the settlement d is the only user with
\* a negative balance or c the only user with a positive one, d's entry for c
\* is its previous amount less a (no entry when that is zero) and d's entries
\* for every other creditor are as before.
C22_PairwiseWhenOneSided ==
  [][settlements' # settlements =>
       LET row == settlements'[Len(settlements')]
           d == row.debtor_id
       IN /\ SumItemAmounts(CalculateUserDebts(expenses', settlements', d).owed_by_user)
               = SumItemAmounts(Debts(d).owed_by_user) - row.amount
          /\ (NetDebtors(expenses, settlements) = {d}
                \/ NetCreditors(expenses, settlements) = {row.creditor_id}) =>
               \A w \in Parties :
                 OwedByAmount(expenses', settlements', d, w)
                   = OwedByAmount(expenses, settlements, d, w)
                       - (IF w = row.creditor_id THEN row.amount ELSE 0)]_vars

\* In a group of four, one of three debtors paid the only creditor a part of
\* what they owed them, and still owes the rest.
C22_Witness ==
  /\ pc = "ledger"
  /\ response.status = 201
  /\ Len(settlements) = 1
  /\ NetCreditors(expenses, settlements) = {settlements[1].creditor_id}
  /\ Cardinality(NetDebtors(expenses, settlements)) = 3
  /\ OwedByAmount(expenses, settlements, settlements[1].debtor_id,
                  settlements[1].creditor_id) > 0

\* C23: when settlement requests are served concurrently, each validating
\* before the other's row is committed, no commit leaves the paying debtor
\* with a positive net balance: the recorded settlements never exceed what
\* the debtor owed.
C23_ConcurrentGuard ==
  [][settlements' # settlements =>
       BalanceOf(AggregateBalances(expenses', settlements'),
                 settlements'[Len(settlements')].debtor_id) <= 0]_vars

(* ----------------------- debt totals of the list view ------------------ *)
\* _get_user_expense_balance_by_group, for the one group: over the split rows
\* whose user is not the expense's creator and where the user is one of the
\* two, the shares of the user's expenses less the user's shares.
RECURSIVE CreditedAmount(_, _)
CreditedAmount(exps, user_id) ==
  IF exps = <<>> THEN 0
  ELSE (IF Head(exps).created_by = user_id
        THEN SharesOfOthers(Head(exps).splits, user_id) ELSE 0)
       + CreditedAmount(Tail(exps), user_id)

RECURSIVE DebitedAmount(_, _)
DebitedAmount(exps, user_id) ==
  IF exps = <<>> THEN 0
  ELSE (IF Head(exps).created_by # user_id
        THEN SumShares(Head(exps).splits, user_id) ELSE 0)
       + DebitedAmount(Tail(exps), user_id)

UserExpenseBalance(exps, user_id) ==
  CreditedAmount(exps, user_id) - DebitedAmount(exps, user_id)

RECURSIVE SettledAsDebtor(_, _)
SettledAsDebtor(setts, user_id) ==
  IF setts = <<>> THEN 0
  ELSE (IF Head(setts).debtor_id = user_id THEN Head(setts).amount ELSE 0)
       + SettledAsDebtor(Tail(setts), user_id)

RECURSIVE SettledAsCreditor(_, _)
SettledAsCreditor(setts, user_id) ==
  IF setts = <<>> THEN 0
  ELSE (IF Head(setts).creditor_id = user_id THEN Head(setts).amount ELSE 0)
       + SettledAsCreditor(Tail(setts), user_id)

\* Mutant: creditor_decimal - debtor_decimal.
UserSettlementBalanceSwapped(setts, user_id) ==
  SettledAsCreditor(setts, user_id) - SettledAsDebtor(setts, user_id)

\* _get_user_settlement_balance_by_group: debtor_decimal - creditor_decimal
UserSettlementBalance(setts, user_id) ==
  SettledAsDebtor(setts, user_id) - SettledAsCreditor(setts, user_id)

\* _balances_to_debt_totals: (owed_by_user_total, owed_to_user_total)
BalancesToDebtTotals(balance_in) ==
  LET balance == quantize_currency(balance_in)
  IN IF balance > 0 THEN <<0, balance>>
     ELSE IF balance < 0 THEN <<quantize_currency(-balance), 0>>
     ELSE <<0, 0>>

\* calculate_user_debt_totals(session, [group_id], user_id)[group_id]
CalculateUserDebtTotals(exps, setts, user_id) ==
  BalancesToDebtTotals(UserExpenseBalance(exps, user_id)
                         + UserSettlementBalance(setts, user_id))

\* C24: in every reachable ledger and for every user, the pair
\* (owed_by_user_total, owed_to_user_total) that calculate_user_debt_totals
\* computes from the user's balance in the group equals the pair of totals
\* calculate_user_debts derives from the group's minimized settlement plan.
C24_ListAgreesWithDetail ==
  pc = "ledger" =>
    \A u \in Users :
      CalculateUserDebtTotals(expenses, settlements, u)
        = <<Debts(u).owed_by_user_total, Debts(u).owed_to_user_total>>

\* After a part payment the payer still owes, and the list view shows what
\* is left; another user is owed by two.
C24_Witness ==
  /\ pc = "ledger"
  /\ settlements # <<>>
  /\ CalculateUserDebtTotals(expenses, settlements, settlements[1].debtor_id)[1] > 0
  /\ \E u \in Users :
       /\ CalculateUserDebtTotals(expenses, settlements, u)[2] > 0
       /\ Len(Debts(u).owed_to_user) = 2

\* C25: with requests served one at a time, every recorded settlement leaves
\* the paying debtor's net balance at most zero and the receiving creditor's
\* at least zero: a payment turns no debtor into a creditor and no creditor
\* into a debtor.
C25_SignPreservation ==
  [][settlements' # settlements =>
       LET row == settlements'[Len(settlements')]
           after == AggregateBalances(expenses', settlements')
       IN /\ BalanceOf(Balances, row.debtor_id) < 0
          /\ BalanceOf(Balances, row.creditor_id) > 0
          /\ BalanceOf(after, row.debtor_id) <= 0
          /\ BalanceOf(after, row.creditor_id) >= 0]_vars

\* A debtor paid a creditor all they owed them: the debtor's balance is
\* zero, and the creditor is still owed by someone else.
C25_Witness ==
  /\ pc = "ledger"
  /\ response.status = 201
  /\ settlements # <<>>
  /\ BalanceOf(Balances, settlements[Len(settlements)].debtor_id) = 0
  /\ BalanceOf(Balances, settlements[Len(settlements)].creditor_id) > 0

\* C26: every transfer of a plan of the minimizer has a strictly positive
\* amount, a debtor whose net balance is negative and a creditor whose net
\* balance is positive; so no user is the debtor of one transfer and the
\* creditor of another, and no user's view has both a non-empty owed_by list
\* and a non-empty owed_to list.
C26_OneSidedPlan ==
  pc = "done" =>
    /\ \A k \in DOMAIN result :
         /\ result[k][3] > 0
         /\ arg[result[k][1]] < 0
         /\ arg[result[k][2]] > 0
    /\ \A k, j \in DOMAIN result : result[k][1] # result[j][2]
    /\ \A u \in Parties :
         LET view == UserDebtsOfPlan(result, u)
         IN view.owed_by_user = <<>> \/ view.owed_to_user = <<>>

\* Two debtors and two creditors: one debtor's view lists both creditors and
\* one creditor's view lists both debtors.
C26_Witness ==
  /\ pc = "done"
  /\ \E u, w \in Parties :
       /\ Len(UserDebtsOfPlan(result, u).owed_by_user) = 2
       /\ Len(UserDebtsOfPlan(result, w).owed_to_user) = 2

\* The requests of a user that are in a given status.
RequestsOf(requests, user_id, status) ==
  {i \in DOMAIN requests :
     requests[i].user_id = user_id /\ requests[i].status = status}

\* A step in which a pending request i becomes ACCEPTED.
Accepts(i) ==
  /\ i \in DOMAIN join_requests
  /\ join_requests[i].status = "pending"
  /\ join_requests'[i].status = "accepted"

\* C27: when accept_group_join_request completes for a pending request, the
\* request's user has exactly one membership row, also when they were a member
\* already; no user ever has two membership rows; and a member who did not
\* create the group has an ACCEPTED join request or was added by add_member
\* directly.
C27_AcceptedImpliesMember ==
  /\ [](\A u \in Users :
          /\ Cardinality(MembershipRows(members, u)) <= 1
          /\ (IsMember(u) /\ u # Owner) =>
               (RequestsOf(join_requests, u, "accepted") # {} \/ u \in result))
  /\ [][\A i \in 1..MaxJoinRequests :
          Accepts(i) =>
            /\ Cardinality(MembershipRows(members', join_requests[i].user_id)) = 1
            /\ IsMember(join_requests[i].user_id) => members' = members]_vars

\* A user asked to join, was then added by add_member directly, and the owner
\* accepted the request afterwards: the user has one membership row.
C27_Witness ==
  /\ pc = "ledger"
  /\ response = Reply(200, "")
  /\ \E u \in result :
       /\ RequestsOf(join_requests, u, "accepted") # {}
       /\ Cardinality(MembershipRows(members, u)) = 1

\* C28: after any sequence of join-by-code, accept and decline requests served
\* one at a time, a user has at most one PENDING join request for the group;
\* a join-by-code call made while the user has a pending request is answered
\* 200 with that request and adds no row.
C28_OnePendingRequest ==
  /\ [](\A u \in Users : Cardinality(PendingJoinRequests(u)) <= 1)
  /\ [][\A u \in Users :
          (PendingJoinRequests(u) # {} /\ JoinGroupByCode(u, TRUE)) =>
            /\ PendingJoinRequests(u) = {GetPendingJoinRequest(u)}
            /\ response' = Reply(200, "")
            /\ join_requests' = join_requests
            /\ members' = members]_vars

\* A user whose first request was declined asked again and then once more:
\* the last call was answered 200, and the user has one pending request.
C28_Witness ==
  /\ pc = "ledger"
  /\ response = Reply(200, "")
  /\ Len(join_requests) = 2
  /\ join_requests[1].user_id = join_requests[2].user_id
  /\ join_requests[1].status = "declined"
  /\ join_requests[2].status = "pending"

\* C29: a user never has more than MAX_JOIN_REQUEST_ATTEMPTS = 3 declined join
\* requests for the group; once three of a user's requests have been declined,
\* every further join-by-code call of that user is rejected with "Join request
\* limit reached" and creates no request.
C29_AttemptLimit ==
  /\ [](\A u \in Users : CountDeclinedJoinRequests(u) <= 3)
  /\ [][\A u \in Users :
          (CountDeclinedJoinRequests(u) >= 3 /\ JoinGroupByCode(u, TRUE)) =>
            /\ response' = Reply(400, "Join request limit reached for this group")
            /\ join_requests' = join_requests
            /\ members' = members]_vars

\* A user's three requests were declined and their fourth call was rejected.
C29_Witness ==
  /\ pc = "ledger"
  /\ response = Reply(400, "Join request limit reached for this group")
  /\ Len(join_requests) = 3
  /\ \E u \in Users : CountDeclinedJoinRequests(u) = 3 /\ ~IsMember(u)

\* An accept or a decline of request i by the group's owner.
OwnerResolves(i) ==
  AcceptGroupJoinRequest(Owner, i) \/ DeclineGroupJoinRequest(Owner, i)

\* C30: accept and decline take effect only on a request of the group that is
\* PENDING; a request that is ACCEPTED or DECLINED never changes again; and an
\* accept or decline of a resolved request is rejected with "Join request
\* already resolved" and changes neither the requests nor the membership rows.
C30_ResolutionIsFinal ==
  [][/\ Len(join_requests') >= Len(join_requests)
     /\ \A i \in DOMAIN join_requests :
          /\ join_requests[i].status # "pending" => join_requests'[i] = join_requests[i]
          /\ join_requests'[i] # join_requests[i] =>
               /\ join_requests[i].status = "pending"
               /\ join_requests'[i].status \in {"accepted", "declined"}
               /\ join_requests'[i].user_id = join_requests[i].user_id
               /\ response' = Reply(200, "")
     /\ response' = Reply(400, "Join request already resolved") =>
          (join_requests' = join_requests /\ members' = members)
     /\ \A i \in DOMAIN join_requests :
          (join_requests[i].status # "pending" /\ OwnerResolves(i)) =>
            response' = Reply(400, "Join request already resolved")
     /\ \A i \in 1..MaxJoinRequests :
          (i \notin DOMAIN join_requests /\ OwnerResolves(i)) =>
            (response' = Reply(404, "Join request not found")
               /\ join_requests' = join_requests /\ members' = members)]_vars

\* The owner tried to resolve a resolved request again; one request stands
\* accepted, with its user a member, and another declined.
C30_Witness ==
  /\ pc = "ledger"
  /\ response = Reply(400, "Join request already resolved")
  /\ \E i, j \in DOMAIN join_requests :
       /\ join_requests[i].status = "accepted"
       /\ IsMember(join_requests[i].user_id)
       /\ join_requests[j].status = "declined"
       /\ ~IsMember(join_requests[j].user_id)

====
